---- MODULE Spec2Model ----
(***************************************************************************)
(* A model of trace.c: the environment-configured tracing facility.       *)
(*                                                                         *)
(* C strings are sequences of one-character strings; the null pointer is   *)
(* NULL.  The process environment belongs to the host application, which   *)
(* may change it between any two trace calls: every call therefore draws   *)
(* the value that getenv returns for its key.  Each operation of trace.c   *)
(* is an operator over a "world" record (descriptor table, trace file,     *)
(* clock state, and the list of library and system calls issued so far);   *)
(* an action runs one public operation to completion and keeps the calls   *)
(* it issued in the variable last.                                         *)
(***************************************************************************)
EXTENDS Integers, Sequences, FiniteSets, TLC

VARIABLES
    fdtab,                \* descriptor table of the process: fd -> what it refers to
    file,                 \* content of the trace file named by an absolute path
    disk_full,            \* writes to the trace file fail (ENOSPC)
    try_to_free_routine,  \* the routine installed by set_try_to_free_routine
    has_highres,          \* the platform has a working monotonic counter
    mono,                 \* the latest reading of the monotonic counter
    offset,               \* static uint64_t offset of getnanotime
    command_start_time,   \* static uint64_t command_start_time
    command_line,         \* static struct strbuf command_line
    hooks,                \* number of atexit registrations
    exited,               \* exit() has been called
    pending,              \* exit hooks still to run
    exit_reports,         \* performance lines emitted by exit hooks
    last,                 \* the latest operation: its inputs and the calls it issued
    thread,               \* threads inside getnanotime: position and locals of each
    stored,               \* the stores made to offset by those threads, in order
    quoting               \* quote_crnl: its position, its locals and new_path

vars == <<fdtab, file, disk_full, try_to_free_routine, has_highres, mono, offset,
          command_start_time, command_line, hooks, exited, pending, exit_reports,
          last, thread, stored, quoting>>

----------------------------------------------------------------------------
(* Bounds *)

\* Descriptors 0..MaxFd exist in the modelled descriptor table.
MaxFd == 3
\* Longest caller payload (characters).
MaxLen == 2
\* A call that appends to the trace file is modelled while the file is
\* shorter than this many bytes.
MaxFile == 3
\* Largest wall-clock reading (gettimeofday_nanos), readings are 1..MaxWall.
MaxWall == 3
\* Largest monotonic-counter reading, readings are 1..MaxMono.
MaxMono == 2
\* Threads that make their first getnanotime call concurrently.
NThreads == 3
\* Size of quote_crnl's buffer new_path, scaled down from the platform's 4096.
PATH_MAX == 4

\* Stand-in for 2^64: large enough that a timestamp plus an elapsed time
\* never wraps, small enough that wall - monotonic does wrap.
Modulus == MaxWall + MaxMono + 1

STDERR_FILENO == 2

----------------------------------------------------------------------------
(* C strings *)

NULL == <<"NULL">>

Missing == <<"ENOENT">>

\* The byte '\0' that ends a C string in memory
NUL == "NUL"

LowerOf ==
    ("A" :> "a") @@ ("E" :> "e") @@ ("F" :> "f") @@ ("L" :> "l") @@
    ("R" :> "r") @@ ("S" :> "s") @@ ("T" :> "t") @@ ("U" :> "u")

tolower(c) == IF c \in DOMAIN LowerOf THEN LowerOf[c] ELSE c

\* 0 when equal, non-zero otherwise
strcmp(a, b) == IF a = b THEN 0 ELSE 1

strcasecmp(a, b) ==
    IF Len(a) = Len(b) /\ \A i \in 1..Len(a) : tolower(a[i]) = tolower(b[i])
    THEN 0 ELSE 1

strlen(s) == Len(s)

DigitChars == {"0", "1", "2", "3", "4", "5", "6", "7", "8", "9"}

isdigit_upto8(c) == c \in (DigitChars \ {"9"})

isdigit(c) == c \in DigitChars

DigitVal ==
    ("0" :> 0) @@ ("1" :> 1) @@ ("2" :> 2) @@ ("3" :> 3) @@ ("4" :> 4) @@
    ("5" :> 5) @@ ("6" :> 6) @@ ("7" :> 7) @@ ("8" :> 8) @@ ("9" :> 9)

RECURSIVE atoi_acc(_, _, _)
atoi_acc(s, i, acc) ==
    IF i > Len(s) \/ ~isdigit(s[i]) THEN acc
    ELSE atoi_acc(s, i + 1, acc * 10 + DigitVal[s[i]])

atoi(s) == atoi_acc(s, 1, 0)

is_absolute_path(s) == Len(s) > 0 /\ s[1] = "/"

str_false == <<"f", "a", "l", "s", "e">>
str_true == <<"t", "r", "u", "e">>

----------------------------------------------------------------------------
(* The world an operation runs in, and the calls it issues *)

Event(call, fd, buf, res) == [call |-> call, fd |-> fd, buf |-> buf, res |-> res]

Log(w, e) == [w EXCEPT !.log = Append(@, e)]

getenv(w, key) == Log(w, Event("getenv", -1, <<key>>, 0))

\* fprintf(stderr, ...): text is the message, one string per output line
fprintf_stderr(w, text) == Log(w, Event("fprintf", STDERR_FILENO, text, 0))

\* The paths open() can open or create
OpenablePaths == {<<"/", "t">>}

FreeFds(w) == {n \in 0..MaxFd : w.fdtab[n] = "closed"}

LowestFree(w) == CHOOSE n \in FreeFds(w) : \A m \in FreeFds(w) : n <= m

\* open(path, O_WRONLY | O_APPEND | O_CREAT, 0666): the lowest free
\* descriptor, or -1; a missing file is created empty, an existing one is
\* left as it is
open_append_creat(w, path) ==
    IF path \in OpenablePaths /\ FreeFds(w) # {}
    THEN LET fd == LowestFree(w) IN
         [fd |-> fd,
          w  |-> Log([w EXCEPT !.fdtab[fd] = "file",
                               !.file = IF @ = Missing THEN <<>> ELSE @],
                     Event("open", fd, path, fd))]
    ELSE [fd |-> -1, w |-> Log(w, Event("open", -1, path, -1))]

close(w, fd) ==
    Log(IF fd \in 0..MaxFd THEN [w EXCEPT !.fdtab[fd] = "closed"] ELSE w,
        Event("close", fd, <<>>, 0))

Writable(w, fd) ==
    /\ fd \in 0..MaxFd
    /\ w.fdtab[fd] # "closed"
    /\ ~(w.fdtab[fd] = "file" /\ disk_full)

\* write_or_whine_pipe(fd, buf, len, msg): writes all of buf, or reports
\* the failure on standard error; never fatal
write_or_whine_pipe(w, fd, buf, msg) ==
    IF Writable(w, fd)
    THEN Log(IF w.fdtab[fd] = "file" THEN [w EXCEPT !.file = @ \o buf] ELSE w,
             Event("write", fd, buf, 1))
    ELSE fprintf_stderr(Log(w, Event("write", fd, buf, 0)), <<msg>>)

----------------------------------------------------------------------------
(* Destination resolver *)

\* The key is off: unset, "", "0" or "false" in any case
trace_want_case_sensitive(trace) ==
    IF trace = NULL \/ strcmp(trace, <<>>) = 0 \/
       strcmp(trace, <<"0">>) = 0 \/ strcmp(trace, str_false) = 0
    THEN 0 ELSE 1

trace_want_empty_is_on(trace) ==
    IF trace = NULL \/
       strcmp(trace, <<"0">>) = 0 \/ strcasecmp(trace, str_false) = 0
    THEN 0 ELSE 1

trace_want(trace) ==
    IF trace = NULL \/ strcmp(trace, <<>>) = 0 \/
       strcmp(trace, <<"0">>) = 0 \/ strcasecmp(trace, str_false) = 0
    THEN 0 ELSE 1

get_trace_fd_two_line_diagnostic(w, key, trace) ==
    LET w1 == getenv(w, key) IN
    IF trace = NULL \/ strcmp(trace, <<>>) = 0 \/
       strcmp(trace, <<"0">>) = 0 \/ strcasecmp(trace, str_false) = 0
    THEN [fd |-> 0, need_close |-> 0, w |-> w1]
    ELSE IF strcmp(trace, <<"1">>) = 0 \/ strcasecmp(trace, str_true) = 0
    THEN [fd |-> STDERR_FILENO, need_close |-> 0, w |-> w1]
    ELSE IF strlen(trace) = 1 /\ isdigit(trace[1])
    THEN [fd |-> atoi(trace), need_close |-> 0, w |-> w1]
    ELSE IF is_absolute_path(trace)
    THEN LET o == open_append_creat(w1, trace) IN
         IF o.fd = -1
         THEN [fd |-> STDERR_FILENO, need_close |-> 0,
               w |-> fprintf_stderr(o.w, <<"Could not open for tracing",
                                           "Defaulting to tracing on stderr...">>)]
         ELSE [fd |-> o.fd, need_close |-> 1, w |-> o.w]
    ELSE [fd |-> STDERR_FILENO, need_close |-> 0,
          w |-> fprintf_stderr(w1, <<"What does it mean?",
                                     "Defaulting to tracing on stderr...">>)]

\* get_trace_fd(key, &need_close), with trace the value getenv(key) returns
get_trace_fd(w, key, trace) ==
    LET w1 == getenv(w, key) IN
    IF trace = NULL \/ strcmp(trace, <<>>) = 0 \/
       strcmp(trace, <<"0">>) = 0 \/ strcasecmp(trace, str_false) = 0
    THEN [fd |-> 0, need_close |-> 0, w |-> w1]
    ELSE IF strcmp(trace, <<"1">>) = 0 \/ strcasecmp(trace, str_true) = 0
    THEN [fd |-> STDERR_FILENO, need_close |-> 0, w |-> w1]
    ELSE IF strlen(trace) = 1 /\ isdigit(trace[1])
    THEN [fd |-> atoi(trace), need_close |-> 0, w |-> w1]
    ELSE IF is_absolute_path(trace)
    THEN LET o == open_append_creat(w1, trace) IN
         IF o.fd = -1
         THEN [fd |-> STDERR_FILENO, need_close |-> 0,
               w |-> fprintf_stderr(o.w, <<"Could not open for tracing",
                                           "Defaulting to tracing on stderr...">>)]
         ELSE [fd |-> o.fd, need_close |-> 1, w |-> o.w]
    ELSE [fd |-> STDERR_FILENO, need_close |-> 0,
          w |-> fprintf_stderr(
                  fprintf_stderr(
                    fprintf_stderr(w1, <<"What does it mean?">>),
                    <<"If you want to trace into a file, set an absolute pathname">>),
                  <<"Defaulting to tracing on stderr...">>)]

err_msg == "Could not trace into fd given by GIT_TRACE environment variable"

----------------------------------------------------------------------------
(* Emitter *)

do_trace_print_always_close(w, key, trace, buf) ==
    LET r == get_trace_fd(w, key, trace) IN
    IF r.fd = 0 THEN r.w
    ELSE close(write_or_whine_pipe(r.w, r.fd, buf, err_msg), r.fd)

do_trace_print(w, key, trace, buf) ==
    LET r == get_trace_fd(w, key, trace) IN
    IF r.fd = 0 THEN r.w
    ELSE LET w2 == write_or_whine_pipe(r.w, r.fd, buf, err_msg) IN
         IF r.need_close # 0 THEN close(w2, r.fd) ELSE w2

----------------------------------------------------------------------------
(* Line builder *)

\* The text "HH:MM:SS.uuuuuu " that prepare_trace_line formats
Timestamp == <<"HH:MM:SS.uuuuuu ">>

prepare_trace_line_timestamp_first(w, key, trace) ==
    LET w1 == getenv(Log(w, Event("gettimeofday", -1, <<>>, 0)), key) IN
    IF trace_want(trace) = 0
    THEN [active |-> 0, buf |-> <<>>, w |-> w1]
    ELSE [active |-> 1, buf |-> Timestamp,
          w |-> Log([w1 EXCEPT !.ttf = "NULL"],
                    Event("set_try_to_free_routine", -1, <<>>, 0))]

\* prepare_trace_line(file, line, key, &buf); buf starts empty
prepare_trace_line(w, key, trace) ==
    LET w1 == getenv(w, key) IN
    IF trace_want(trace) = 0
    THEN [active |-> 0, buf |-> <<>>, w |-> w1]
    ELSE [active |-> 1, buf |-> Timestamp,
          w |-> Log(Log([w1 EXCEPT !.ttf = "NULL"],
                        Event("set_try_to_free_routine", -1, <<>>, 0)),
                    Event("gettimeofday", -1, <<>>, 0))]

print_trace_line_always_newline(w, key, trace, buf) ==
    do_trace_print(w, key, trace, Append(buf, "\n"))

print_trace_line(w, key, trace, buf) ==
    LET buf2 == IF Len(buf) # 0 /\ buf[Len(buf)] # "\n"
                THEN Append(buf, "\n") ELSE buf
    IN do_trace_print(w, key, trace, buf2)

\* trace_vprintf_fl: text is what strbuf_vaddf makes of the format and arguments
trace_vprintf_fl(w, key, trace, text) ==
    LET p == prepare_trace_line(w, key, trace) IN
    IF p.active = 0 THEN p.w
    ELSE print_trace_line(p.w, key, trace, p.buf \o text)

\* sq_quote_argv(&buf, argv, 0): each argument after a space, inside single quotes
RECURSIVE sq_quote_argv(_, _)
sq_quote_argv(buf, argv) ==
    IF argv = <<>> THEN buf
    ELSE sq_quote_argv(buf \o <<" ", "'", Head(argv), "'">>, Tail(argv))

trace_argv_vprintf_fl(w, trace, argv, text) ==
    LET p == prepare_trace_line(w, "GIT_TRACE", trace) IN
    IF p.active = 0 THEN p.w
    ELSE print_trace_line(p.w, "GIT_TRACE", trace, sq_quote_argv(p.buf \o text, argv))

trace_strbuf_fl(w, key, trace, data) ==
    LET p == prepare_trace_line(w, key, trace) IN
    IF p.active = 0 THEN p.w
    ELSE print_trace_line(p.w, key, trace, p.buf \o data)

----------------------------------------------------------------------------
(* Clock *)

gettimeofday_nanos(w, wall) ==
    [val |-> wall, w |-> Log(w, Event("gettimeofday", -1, <<>>, wall))]

\* clock_gettime(CLOCK_MONOTONIC): h is the counter's reading, 0 is returned
\* when the call fails
highres_nanos(w, h) ==
    IF has_highres
    THEN [val |-> h, w |-> Log([w EXCEPT !.mono = h], Event("clock_gettime", -1, <<>>, h))]
    ELSE [val |-> 0, w |-> Log(w, Event("clock_gettime", -1, <<>>, 0))]

\* getnanotime(); wall and h are the readings the clocks give if they are read
getnanotime(w, wall, h) ==
    IF w.offset > 1
    THEN LET r == highres_nanos(w, h) IN
         [val |-> (w.offset + r.val) % Modulus, w |-> r.w]
    ELSE IF w.offset = 1
    THEN gettimeofday_nanos(w, wall)
    ELSE LET now == gettimeofday_nanos(w, wall)
             highres == highres_nanos(now.w, h)
         IN [val |-> now.val,
             w |-> [highres.w EXCEPT !.offset =
                        IF highres.val # 0
                        THEN (now.val - highres.val) % Modulus
                        ELSE 1]]

----------------------------------------------------------------------------
(* Performance reporter *)

GIT_TRACE_PERFORMANCE == "GIT_TRACE_PERFORMANCE"

\* "%.9f" of nanos / 1000000000
Seconds(nanos) == ToString(nanos)

\* text is what the format makes of its arguments, <<>> for no or an empty format
trace_performance_vfl(w, trace, nanos, text) ==
    LET p == prepare_trace_line(w, GIT_TRACE_PERFORMANCE, trace) IN
    IF p.active = 0 THEN p.w
    ELSE LET buf1 == p.buf \o <<"performance: ", Seconds(nanos), " s">>
             buf2 == IF text # <<>> THEN buf1 \o <<": ">> \o text ELSE buf1
         IN print_trace_line(p.w, GIT_TRACE_PERFORMANCE, trace, buf2)

trace_performance(w, trace, nanos, text, wall, h) ==
    getnanotime(trace_performance_vfl(w, trace, nanos, text), wall, h)

trace_performance_since_returns_first_reading(w, trace, start, text, wall1, h1, wall2, h2) ==
    LET now == getnanotime(w, wall1, h1) IN
    [val |-> now.val,
     w |-> trace_performance_vfl(now.w, trace, (now.val - start) % Modulus, text)]

trace_performance_since(w, trace, start, text, wall1, h1, wall2, h2) ==
    LET now == getnanotime(w, wall1, h1) IN
    getnanotime(trace_performance_vfl(now.w, trace, (now.val - start) % Modulus, text),
                wall2, h2)

print_command_performance_atexit(w, trace, wall1, h1, wall2, h2) ==
    trace_performance_since(w, trace, w.command_start_time,
                            <<"git command:">> \o w.command_line,
                            wall1, h1, wall2, h2).w

atexit(w) == Log([w EXCEPT !.hooks = @ + 1], Event("atexit", -1, <<>>, 0))

trace_command_performance_always_atexit(w, trace, argv, wall, h) ==
    LET w1 == getenv(w, GIT_TRACE_PERFORMANCE) IN
    IF trace_want(trace) = 0 THEN w1
    ELSE LET now == getnanotime(atexit(w1), wall, h) IN
         [now.w EXCEPT !.command_line = sq_quote_argv(<<>>, argv),
                       !.command_start_time = now.val]

trace_command_performance_unchecked(w, trace, argv, wall, h) ==
    LET w1 == getenv(w, GIT_TRACE_PERFORMANCE)
        w2 == IF w1.command_start_time = 0 THEN atexit(w1) ELSE w1
        now == getnanotime(w2, wall, h)
    IN [now.w EXCEPT !.command_line = sq_quote_argv(<<>>, argv),
                     !.command_start_time = now.val]

trace_command_performance(w, trace, argv, wall, h) ==
    LET w1 == getenv(w, GIT_TRACE_PERFORMANCE) IN
    IF trace_want(trace) = 0 THEN w1
    ELSE LET w2 == IF w1.command_start_time = 0 THEN atexit(w1) ELSE w1
             now == getnanotime(w2, wall, h)
         IN [now.w EXCEPT !.command_line = sq_quote_argv(<<>>, argv),
                          !.command_start_time = now.val]

----------------------------------------------------------------------------
(* Setup reporter *)

RECURSIVE quote_crnl(_)
quote_crnl(path) ==
    IF path = NULL THEN NULL
    ELSE IF path = <<>> THEN <<>>
    ELSE (CASE Head(path) = "\\" -> <<"\\", "\\">>
            [] Head(path) = "\n" -> <<"\\", "n">>
            [] Head(path) = "\r" -> <<"\\", "r">>
            [] OTHER -> <<Head(path)>>) \o quote_crnl(Tail(path))

null_text == <<"(null)">>

GIT_TRACE_SETUP == "GIT_TRACE_SETUP"

trace_printf_key(w, key, trace, text) == trace_vprintf_fl(w, key, trace, text)

\* cwd is what getcwd gives, NULL when it fails; git_dir, common_dir and
\* work_tree are what get_git_dir, get_git_common_dir and get_git_work_tree give
trace_repo_setup(w, trace, prefix, cwd, git_dir, common_dir, work_tree) ==
    LET w1 == getenv(w, GIT_TRACE_SETUP) IN
    IF trace_want(trace) = 0 THEN w1
    ELSE LET w2 == Log(w1, Event("getcwd", -1, cwd, 0)) IN
         IF cwd = NULL
         THEN [Log(w2, Event("die", -1, <<"Unable to get current working directory">>, 0))
                  EXCEPT !.died = TRUE]
         ELSE LET git_work_tree == IF work_tree = NULL THEN null_text ELSE work_tree
                  prefix2 == IF prefix = NULL THEN null_text ELSE prefix
                  key == GIT_TRACE_SETUP
                  l1 == trace_printf_key(w2, key, trace,
                            <<"setup: git_dir: ">> \o quote_crnl(git_dir) \o <<"\n">>)
                  l2 == trace_printf_key(l1, key, trace,
                            <<"setup: git_common_dir: ">> \o quote_crnl(common_dir) \o <<"\n">>)
                  l3 == trace_printf_key(l2, key, trace,
                            <<"setup: worktree: ">> \o quote_crnl(git_work_tree) \o <<"\n">>)
                  l4 == trace_printf_key(l3, key, trace,
                            <<"setup: cwd: ">> \o quote_crnl(cwd) \o <<"\n">>)
              IN trace_printf_key(l4, key, trace,
                            <<"setup: prefix: ">> \o quote_crnl(prefix2) \o <<"\n">>)

----------------------------------------------------------------------------
(* Inputs *)

PayloadChars == {"x", "\n"}

Payloads == UNION {[1..k -> PayloadChars] : k \in 0..MaxLen}

\* Payloads of the destination specification: two lines that differ
DestPayloads == {<<"x">>, <<"y", "\n">>}

\* Values of a trace key: unset, off, standard error, digits, paths, malformed
EnvValues ==
    {NULL, <<>>, <<"0">>, str_false, <<"F", "a", "l", "s", "e">>,
     <<"1">>, str_true, <<"T", "R", "U", "E">>,
     <<"2">>, <<"9">>,
     <<"/", "t">>, <<"/", "x">>,
     <<"b", "a", "n", "a", "n", "a">>}

\* Values of a trace key in the clock and performance specification
PerfEnvValues == {NULL, <<"0">>, <<"F", "a", "l", "s", "e">>, <<"1">>}

\* Values that turn a trace key off
OffValues == {NULL, <<"0">>, <<"F", "a", "l", "s", "e">>}

\* Values of the performance key in the command timing specification
CmdEnvValues == {NULL, <<"0">>, <<"1">>}

\* Values of a trace key in the line specification
LineEnvValues == {<<"1">>, <<"/", "t">>}

Argvs == {<<"git">>, <<"git", "log">>}

StdFds == 0..2

WallReadings == 1..MaxWall

MonoReadings == (IF mono = 0 THEN 1 ELSE mono)..MaxMono

Start == 1

\* The start a caller passes to trace_performance_since: a fixed reading, or
\* what the previous trace_performance_since returned (a chained measurement)
Starts ==
    {Start} \cup (IF last.op = "trace_performance_since" THEN {last.ret} ELSE {})

----------------------------------------------------------------------------
(* Actions: one public operation each, run to completion *)

World ==
    [fdtab |-> fdtab, file |-> file, ttf |-> try_to_free_routine,
     offset |-> offset, mono |-> mono,
     command_start_time |-> command_start_time, command_line |-> command_line,
     hooks |-> hooks, died |-> FALSE, log |-> <<>>]

Commit(w, op, trace, text, num, ret) ==
    /\ fdtab' = w.fdtab
    /\ file' = w.file
    /\ try_to_free_routine' = w.ttf
    /\ offset' = w.offset
    /\ mono' = w.mono
    /\ command_start_time' = w.command_start_time
    /\ command_line' = w.command_line
    /\ hooks' = w.hooks
    /\ exited' = (exited \/ w.died)
    /\ pending' = IF w.died THEN w.hooks ELSE pending
    /\ last' = [op |-> op, val |-> trace, text |-> text, num |-> num,
                ret |-> ret, log |-> w.log]
    /\ UNCHANGED <<disk_full, has_highres, thread, stored, quoting>>

\* The trace file is modelled up to MaxFile bytes
Modelled(trace) == is_absolute_path(trace) => (file = Missing \/ Len(file) < MaxFile)

TracePrintfKey(key, trace, text) ==
    /\ ~exited /\ Modelled(trace)
    /\ Commit(trace_printf_key(World, key, trace, text),
              "trace_printf_key", trace, text, 0, 0)
    /\ UNCHANGED exit_reports

TraceStrbuf(key, trace, data) ==
    /\ ~exited /\ Modelled(trace)
    /\ Commit(trace_strbuf_fl(World, key, trace, data),
              "trace_strbuf", trace, data, 0, 0)
    /\ UNCHANGED exit_reports

TraceArgvPrintf(trace, argv, text) ==
    /\ ~exited /\ Modelled(trace)
    /\ Commit(trace_argv_vprintf_fl(World, trace, argv, text),
              "trace_argv_printf", trace, text \o argv, 0, 0)
    /\ UNCHANGED exit_reports

TraceRepoSetup(trace, prefix, cwd, work_tree) ==
    /\ ~exited /\ Modelled(trace)
    /\ Commit(trace_repo_setup(World, trace, prefix, cwd, <<".", "g">>, <<".", "g">>,
                               work_tree),
              "trace_repo_setup", trace, cwd, 0, 0)
    /\ UNCHANGED exit_reports

GetNanoTime(wall, h) ==
    /\ ~exited
    /\ LET r == getnanotime(World, wall, h) IN
       Commit(r.w, "getnanotime", NULL, <<>>, 0, r.val)
    /\ UNCHANGED exit_reports

TracePerformance(trace, nanos, text, wall, h) ==
    /\ ~exited /\ Modelled(trace)
    /\ LET r == trace_performance(World, trace, nanos, text, wall, h) IN
       Commit(r.w, "trace_performance", trace, text, nanos, r.val)
    /\ UNCHANGED exit_reports

TracePerformanceSince(trace, start, text, wall1, h1, wall2, h2) ==
    /\ ~exited /\ Modelled(trace)
    /\ LET r == trace_performance_since(World, trace, start, text, wall1, h1, wall2, h2) IN
       Commit(r.w, "trace_performance_since", trace, text, start, r.val)
    /\ UNCHANGED exit_reports

TraceCommandPerformance(trace, argv, wall, h) ==
    /\ ~exited
    /\ Commit(trace_command_performance(World, trace, argv, wall, h),
              "trace_command_performance", trace, argv, 0, 0)
    /\ UNCHANGED exit_reports

\* exit(): the registered hooks run, one per registration
Exit ==
    /\ ~exited
    /\ exited' = TRUE
    /\ pending' = hooks
    /\ last' = [op |-> "exit", val |-> NULL, text |-> <<>>, num |-> 0, ret |-> 0,
                log |-> <<>>]
    /\ UNCHANGED <<fdtab, file, disk_full, try_to_free_routine, has_highres, mono,
                   offset, command_start_time, command_line, hooks, exit_reports,
                   thread, stored, quoting>>

Emitted(log) == \E i \in 1..Len(log) : log[i].call = "write"

RunExitHook(trace, wall1, h1, wall2, h2) ==
    /\ exited /\ pending > 0
    /\ LET w == print_command_performance_atexit(World, trace, wall1, h1, wall2, h2) IN
       /\ fdtab' = w.fdtab
       /\ file' = w.file
       /\ try_to_free_routine' = w.ttf
       /\ offset' = w.offset
       /\ mono' = w.mono
       /\ exit_reports' = exit_reports + (IF Emitted(w.log) THEN 1 ELSE 0)
       /\ last' = [op |-> "print_command_performance_atexit", val |-> trace,
                   text |-> command_line, num |-> command_start_time, ret |-> 0,
                   log |-> w.log]
    /\ pending' = pending - 1
    /\ UNCHANGED <<disk_full, has_highres, command_start_time, command_line, hooks,
                   exited, thread, stored, quoting>>

----------------------------------------------------------------------------
(* Specifications *)

\* Memory from the start of new_path: the PATH_MAX bytes of the array, then
\* the bytes of whatever objects follow it, as far as quote_crnl can reach
MemTop == 2 * PATH_MAX - 2

\* Before the first call: new_path is a static, all zero
NotQuoting ==
    [pc |-> "idle", path |-> NULL, p2 |-> 1, p1 |-> 0, top |-> -1,
     mem |-> [i \in 0..MemTop |-> IF i < PATH_MAX THEN NUL ELSE "other"],
     result |-> NULL]

\* The threads that call getnanotime, and a thread that has not called yet
Threads == 1..NThreads

NotCalled == [pc |-> "call", seen |-> 0, now |-> 0, highres |-> 0, used |-> 0,
              branch |-> "none", ret |-> 0]

NoCall == [op |-> "none", val |-> NULL, text |-> <<>>, num |-> 0, ret |-> 0, log |-> <<>>]

InitStatics ==
    /\ try_to_free_routine = "default"
    /\ mono = 0
    /\ offset = 0
    /\ command_start_time = 0
    /\ command_line = <<>>
    /\ hooks = 0
    /\ exited = FALSE
    /\ pending = 0
    /\ exit_reports = 0
    /\ last = NoCall
    /\ thread = [t \in Threads |-> NotCalled]
    /\ stored = <<>>
    /\ quoting = NotQuoting

\* Message tracing: at most one of the descriptors 0, 1, 2 is closed at
\* start, the trace file may exist or not, the disk may be full
Init ==
    /\ \E inherited \in {StdFds} \cup {StdFds \ {n} : n \in StdFds} :
           fdtab = [n \in 0..MaxFd |-> IF n \in inherited THEN "inherited" ELSE "closed"]
    /\ file \in {Missing, <<"o", "\n">>}
    /\ disk_full \in BOOLEAN
    /\ has_highres = TRUE
    /\ InitStatics

Next ==
    \/ \E trace \in EnvValues, text \in DestPayloads :
           TracePrintfKey("GIT_TRACE", trace, text)
    \/ \E trace \in EnvValues, data \in DestPayloads :
           TraceStrbuf("GIT_TRACE", trace, data)
    \/ \E trace \in EnvValues :
           TraceArgvPrintf(trace, <<"git">>, <<"x">>)
    \/ \E trace \in EnvValues, cwd \in {NULL, <<"c", "\\">>} :
           TraceRepoSetup(trace, NULL, cwd, <<"w", "\n">>)

Spec == Init /\ [][Next]_vars

\* Line building: every payload, to standard error and to the trace file
InitLine ==
    /\ fdtab = [n \in 0..MaxFd |-> IF n \in StdFds THEN "inherited" ELSE "closed"]
    /\ file = Missing
    /\ disk_full = FALSE
    /\ has_highres = TRUE
    /\ InitStatics

NextLine ==
    \/ \E trace \in LineEnvValues, text \in Payloads :
           TracePrintfKey("GIT_TRACE", trace, text)
    \/ \E trace \in LineEnvValues, data \in Payloads :
           TraceStrbuf("GIT_TRACE", trace, data)
    \/ \E trace \in LineEnvValues, argv \in Argvs, text \in {<<>>, <<"x", "\n">>} :
           TraceArgvPrintf(trace, argv, text)

SpecLine == InitLine /\ [][NextLine]_vars

\* Clock and performance reporters, and every other public operation with
\* its key off; the standard descriptors are open
InitPerf ==
    /\ fdtab = [n \in 0..MaxFd |-> IF n \in StdFds THEN "inherited" ELSE "closed"]
    /\ file = Missing
    /\ disk_full = FALSE
    /\ has_highres \in BOOLEAN
    /\ InitStatics

NextPerf ==
    \/ \E wall \in WallReadings, h \in MonoReadings : GetNanoTime(wall, h)
    \/ \E trace \in PerfEnvValues, wall \in WallReadings, h \in MonoReadings :
           TracePerformance(trace, MaxWall, <<"x">>, wall, h)
    \/ \E trace \in PerfEnvValues, start \in Starts,
          wall1 \in WallReadings, h1 \in MonoReadings, wall2 \in WallReadings :
           \E h2 \in h1..MaxMono :
               TracePerformanceSince(trace, start, <<>>, wall1, h1, wall2, h2)
    \/ \E trace \in OffValues, wall \in WallReadings, h \in MonoReadings :
           TraceCommandPerformance(trace, <<"git">>, wall, h)
    \/ \E trace \in OffValues : TracePrintfKey("GIT_TRACE", trace, <<"x">>)
    \/ \E trace \in OffValues : TraceStrbuf("GIT_TRACE", trace, <<"x">>)
    \/ \E trace \in OffValues : TraceArgvPrintf(trace, <<"git">>, <<"x">>)
    \/ \E trace \in OffValues : TraceRepoSetup(trace, NULL, NULL, NULL)

SpecPerf == InitPerf /\ [][NextPerf]_vars

\* Command timing: trace_command_performance, exit and the exit hooks
NextCmd ==
    \/ \E trace \in CmdEnvValues, argv \in Argvs, wall \in WallReadings,
          h \in MonoReadings :
           TraceCommandPerformance(trace, argv, wall, h)
    \/ Exit
    \/ \E trace \in CmdEnvValues, wall1 \in WallReadings, h1 \in MonoReadings,
          wall2 \in WallReadings :
           \E h2 \in h1..MaxMono :
               RunExitHook(trace, wall1, h1, wall2, h2)

SpecCmd == InitPerf /\ [][NextCmd]_vars

----------------------------------------------------------------------------
(* getnanotime called from several threads *)

(* The threads share the static offset and nothing orders their accesses to
   it.  A load or store of offset is taken as one step, the least the race
   can do; the compiled code may keep the value it tested in a register or
   load offset again where the source names it again, and both are
   modelled.  Each thread makes one call. *)

\* What a later mention of offset evaluates to for a thread that loaded seen
Reloads(t) == {thread[t].seen, offset}

ThreadUnchanged ==
    UNCHANGED <<fdtab, file, disk_full, try_to_free_routine, has_highres,
                command_start_time, command_line, hooks, exited, pending,
                exit_reports, last, quoting>>

\* if (offset > 1)
ThreadTestCalibrated(t) ==
    /\ thread[t].pc = "call"
    /\ thread' = [thread EXCEPT ![t].seen = offset,
                                ![t].pc = IF offset > 1 THEN "calibrated" ELSE "test_failed"]
    /\ UNCHANGED <<mono, offset, stored>>
    /\ ThreadUnchanged

\* else if (offset == 1)
ThreadTestFailed(t) ==
    /\ thread[t].pc = "test_failed"
    /\ \E v \in Reloads(t) :
           thread' = [thread EXCEPT ![t].seen = v,
                                    ![t].pc = IF v = 1 THEN "failed" ELSE "initialize"]
    /\ UNCHANGED <<mono, offset, stored>>
    /\ ThreadUnchanged

\* return offset + highres_nanos();
ThreadReturnCalibrated(t, h) ==
    /\ thread[t].pc = "calibrated"
    /\ \E v \in Reloads(t) :
           thread' = [thread EXCEPT ![t].used = v,
                                    ![t].highres = IF has_highres THEN h ELSE 0,
                                    ![t].ret = (v + (IF has_highres THEN h ELSE 0)) % Modulus,
                                    ![t].branch = "calibrated",
                                    ![t].pc = "returned"]
    /\ mono' = IF has_highres THEN h ELSE mono
    /\ UNCHANGED <<offset, stored>>
    /\ ThreadUnchanged

\* return gettimeofday_nanos();
ThreadReturnFailed(t, wall) ==
    /\ thread[t].pc = "failed"
    /\ thread' = [thread EXCEPT ![t].ret = wall, ![t].branch = "failed",
                                ![t].pc = "returned"]
    /\ UNCHANGED <<mono, offset, stored>>
    /\ ThreadUnchanged

\* uint64_t now = gettimeofday_nanos();
ThreadReadWall(t, wall) ==
    /\ thread[t].pc = "initialize"
    /\ thread' = [thread EXCEPT ![t].now = wall, ![t].pc = "read_highres"]
    /\ UNCHANGED <<mono, offset, stored>>
    /\ ThreadUnchanged

\* uint64_t highres = highres_nanos();
ThreadReadHighres(t, h) ==
    /\ thread[t].pc = "read_highres"
    /\ thread' = [thread EXCEPT ![t].highres = IF has_highres THEN h ELSE 0,
                                ![t].pc = "store"]
    /\ mono' = IF has_highres THEN h ELSE mono
    /\ UNCHANGED <<offset, stored>>
    /\ ThreadUnchanged

\* if (highres) offset = now - highres; else offset = 1; return now;
ThreadStore(t) ==
    /\ thread[t].pc = "store"
    /\ LET v == IF thread[t].highres # 0
                THEN (thread[t].now - thread[t].highres) % Modulus
                ELSE 1
       IN /\ offset' = v
          /\ stored' = Append(stored, [by |-> t, val |-> v, now |-> thread[t].now,
                                       highres |-> thread[t].highres])
    /\ thread' = [thread EXCEPT ![t].ret = thread[t].now, ![t].branch = "initialize",
                                ![t].pc = "returned"]
    /\ UNCHANGED mono
    /\ ThreadUnchanged

NextRace ==
    \E t \in Threads :
        \/ ThreadTestCalibrated(t)
        \/ ThreadTestFailed(t)
        \/ \E h \in MonoReadings : ThreadReturnCalibrated(t, h)
        \/ \E wall \in WallReadings : ThreadReturnFailed(t, wall)
        \/ \E wall \in WallReadings : ThreadReadWall(t, wall)
        \/ \E h \in MonoReadings : ThreadReadHighres(t, h)
        \/ ThreadStore(t)

SpecRace == InitPerf /\ [][NextRace]_vars

----------------------------------------------------------------------------
(* quote_crnl, one loop iteration at a time *)

(* new_path is PATH_MAX bytes long and the loop does not test p1 against its
   end.  A store past the end is undefined: it lands in the object that
   follows the array, or the process faults. *)

QuoteChars == {"\\", "\n", "\r", "x"}

\* The callers pass strings shorter than PATH_MAX characters
QuotePaths == UNION {[1..k -> QuoteChars] : k \in 0..(PATH_MAX - 1)}

\* The bytes one iteration stores for *p2
Quoted(c) ==
    CASE c = "\\" -> <<"\\", "\\">>
      [] c = "\n" -> <<"\\", "n">>
      [] c = "\r" -> <<"\\", "r">>
      [] OTHER -> <<c>>

\* *p1++ = b for each byte b of bytes, starting at offset at
Store(mem, at, bytes) ==
    [i \in 0..MemTop |->
        IF i \in at..(at + Len(bytes) - 1) THEN bytes[i - at + 1] ELSE mem[i]]

\* The C string that starts at new_path[0]
RECURSIVE StringAt(_, _)
StringAt(mem, i) ==
    IF i > MemTop \/ mem[i] = NUL THEN <<>>
    ELSE <<mem[i]>> \o StringAt(mem, i + 1)

QuoteUnchanged ==
    UNCHANGED <<fdtab, file, disk_full, try_to_free_routine, has_highres, mono, offset,
                command_start_time, command_line, hooks, exited, pending,
                exit_reports, last, thread, stored>>

\* The outcomes of storing bytes at p1: in bounds the store is done and q is
\* the state after it; out of bounds the store is done past the array, or
\* the process faults
Stores(q, bytes, after) ==
    LET done == [after EXCEPT !.mem = Store(q.mem, q.p1, bytes),
                              !.p1 = q.p1 + Len(bytes),
                              !.top = q.p1 + Len(bytes) - 1]
    IN IF q.p1 + Len(bytes) <= PATH_MAX
       THEN {done}
       ELSE {done, [q EXCEPT !.pc = "fault", !.top = q.p1 + Len(bytes) - 1]}

\* quote_crnl(path): p2 = path, p1 = new_path; if (!path) return NULL;
QuoteCall(path) ==
    /\ quoting.pc \in {"idle", "returned"}
    /\ quoting' = [quoting EXCEPT
                       !.pc = IF path = NULL THEN "returned" ELSE "loop",
                       !.path = path, !.p2 = 1, !.p1 = 0, !.top = -1,
                       !.result = NULL]
    /\ QuoteUnchanged

\* while (*p2) { switch (*p2) ... p2++; }
QuoteIteration ==
    /\ quoting.pc = "loop" /\ quoting.p2 <= Len(quoting.path)
    /\ quoting' \in Stores(quoting, Quoted(quoting.path[quoting.p2]),
                           [quoting EXCEPT !.p2 = quoting.p2 + 1])
    /\ QuoteUnchanged

\* *p1 = '\0'; return new_path;
QuoteReturn ==
    /\ quoting.pc = "loop" /\ quoting.p2 > Len(quoting.path)
    /\ \E q \in Stores(quoting, <<NUL>>, [quoting EXCEPT !.pc = "returned"]) :
           quoting' = IF q.pc = "returned"
                      THEN [q EXCEPT !.p1 = quoting.p1, !.result = StringAt(q.mem, 0)]
                      ELSE q
    /\ QuoteUnchanged

NextQuote ==
    \/ \E path \in QuotePaths \cup {NULL} : QuoteCall(path)
    \/ QuoteIteration
    \/ QuoteReturn

SpecQuote == InitPerf /\ [][NextQuote]_vars

----------------------------------------------------------------------------
(* Properties *)

MsgOps == {"trace_printf_key", "trace_strbuf", "trace_argv_printf", "trace_repo_setup"}

LineOps == {"trace_printf_key", "trace_strbuf"}

KeyedOps == MsgOps \cup {"trace_performance", "trace_performance_since",
                         "trace_command_performance"}

\* The values the documentation gives for a key that is off
KeyOff(v) ==
    \/ v \in {NULL, <<>>, <<"0">>}
    \/ /\ Len(v) = 5
       /\ v[1] \in {"f", "F"} /\ v[2] \in {"a", "A"} /\ v[3] \in {"l", "L"}
       /\ v[4] \in {"s", "S"} /\ v[5] \in {"e", "E"}

Idx(log, c) == {i \in 1..Len(log) : log[i].call = c}

Statics == <<fdtab, file, try_to_free_routine, offset, mono, command_start_time,
             command_line, hooks, exited, pending, exit_reports>>

\* C1: between calls no descriptor that get_trace_fd opened is still open.
C1_OwnedClosed == \A n \in 0..MaxFd : fdtab[n] # "file"

\* C2 (as claimed): for every digit value "0".."9" the call writes to the
\* descriptor of that number and does not close it.
C2_DigitIsFd ==
    (last.op \in LineOps /\ Len(last.val) = 1 /\ last.val[1] \in DigitChars) =>
        /\ Idx(last.log, "write") # {}
        /\ \A i \in Idx(last.log, "write") : last.log[i].fd = DigitVal[last.val[1]]
        /\ Idx(last.log, "close") = {}

\* C2 (amended): for every digit value "2".."9" the descriptor resolved is
\* the one of that number, nothing is opened and nothing is closed, and a
\* call with such a value writes its line to that descriptor only; "0" turns
\* the key off and "1" resolves to standard error.
C2_DigitFrom2IsFd ==
    /\ \A c \in DigitChars \ {"0", "1"} :
           LET r == get_trace_fd(World, "GIT_TRACE", <<c>>) IN
           /\ r.fd = DigitVal[c]
           /\ r.need_close = 0
           /\ r.w.fdtab = fdtab
           /\ Idx(r.w.log, "open") = {}
    /\ get_trace_fd(World, "GIT_TRACE", <<"0">>).fd = 0
    /\ get_trace_fd(World, "GIT_TRACE", <<"1">>).fd = STDERR_FILENO
    /\ (last.op \in MsgOps /\ Len(last.val) = 1 /\ last.val[1] \in DigitChars) =>
           /\ Idx(last.log, "close") = {} /\ Idx(last.log, "open") = {}
           /\ last.op \in LineOps =>
                  Cardinality(Idx(last.log, "write")) = (IF last.val = <<"0">> THEN 0 ELSE 1)
           /\ \A i \in Idx(last.log, "write") :
                  last.log[i].fd = IF last.val = <<"1">> THEN STDERR_FILENO
                                   ELSE DigitVal[last.val[1]]

C2_Digit9Written ==
    /\ last.op = "trace_printf_key" /\ last.val = <<"9">>
    /\ \E i \in Idx(last.log, "write") : last.log[i].fd = 9

EndsInNewline(s) == Len(s) > 0 /\ s[Len(s)] = "\n"

EndsInOneNewline(s) == EndsInNewline(s) /\ (Len(s) > 1 => s[Len(s) - 1] # "\n")

\* C4 (as claimed): whatever the payload, the bytes handed to the
\* destination end in exactly one newline.
C4_ExactlyOneNewline ==
    last.op \in LineOps =>
        \A i \in Idx(last.log, "write") : EndsInOneNewline(last.log[i].buf)

\* C4 (amended): the bytes handed to the destination are the timestamp and
\* the payload, followed by one newline only when the payload does not end
\* in one; they always end in a newline, and in exactly one unless the
\* payload itself ends in two or more.
C4_NewlineAppendedIfMissing ==
    last.op \in LineOps =>
        /\ Cardinality(Idx(last.log, "write")) = 1
        /\ \A i \in Idx(last.log, "write") :
               LET buf == last.log[i].buf IN
               /\ buf = Timestamp \o last.text \o
                        (IF EndsInNewline(last.text) THEN <<>> ELSE <<"\n">>)
               /\ EndsInNewline(buf)
               /\ EndsInOneNewline(buf) <=>
                      ~(Len(last.text) > 1 /\ EndsInNewline(last.text)
                        /\ last.text[Len(last.text) - 1] = "\n")

C4_TwoNewlinesKept ==
    /\ last.op = "trace_printf_key" /\ last.text = <<"\n", "\n">>
    /\ \E i \in Idx(last.log, "write") :
           last.log[i].buf = Timestamp \o <<"\n", "\n">>

\* C5: a message trace call whose key is off only looks the key up: nothing
\* is formatted, opened or written, and no static state changes.
C5_OffIsNoOp ==
    [][(last'.op \in MsgOps /\ KeyOff(last'.val)) =>
           /\ Len(last'.log) = 1
           /\ last'.log[1].call = "getenv"
           /\ UNCHANGED Statics]_vars

C5_OffCallMade ==
    /\ last.op = "trace_repo_setup" /\ last.val = <<"F", "a", "l", "s", "e">>
    /\ Len(last.log) = 1
    /\ try_to_free_routine = "NULL"

ClockCalls == {"gettimeofday", "clock_gettime"}

\* C6 (as claimed): every public operation whose key is off issues no call
\* but the environment lookup.
C6_OffNoSyscall ==
    (last.op \in KeyedOps /\ KeyOff(last.val)) =>
        \A i \in 1..Len(last.log) : last.log[i].call = "getenv"

\* C6 (amended): with the key off no operation opens, writes or closes
\* anything; the message operations, trace_repo_setup and
\* trace_command_performance issue the environment lookup only, while
\* trace_performance reads the clock once after the lookup and
\* trace_performance_since once before and once after it.
C6_OffOnlyClockReads ==
    (last.op \in KeyedOps /\ KeyOff(last.val)) =>
        LET log == last.log
            env == Idx(log, "getenv")
        IN /\ \A i \in 1..Len(log) : log[i].call \in {"getenv"} \cup ClockCalls
           /\ Cardinality(env) = 1
           /\ last.op \in MsgOps \cup {"trace_command_performance"} => Len(log) = 1
           /\ last.op = "trace_performance" => (1 \in env /\ Len(log) \in 2..3)
           /\ last.op = "trace_performance_since" =>
                  \A k \in env : k \in 2..3 /\ Len(log) - k \in 1..2

C6_OffCallCalibrated ==
    /\ last.op = "trace_performance_since" /\ last.val = <<"0">>
    /\ last.log[1].call = "gettimeofday" /\ last.log[2].call = "clock_gettime"
    /\ offset > 1

\* C7: no call closes a descriptor the tracer did not open: an inherited
\* descriptor stays open, every close follows an open that returned that
\* descriptor, and a call whose key is "1"/"true", a digit, malformed or a
\* path that could not be opened closes nothing.
C7_NeverClosesInherited ==
    [][/\ \A n \in 0..MaxFd : fdtab[n] = "inherited" => fdtab'[n] = "inherited"
       /\ \A i \in Idx(last'.log, "close") :
              \E j \in Idx(last'.log, "open") :
                  /\ j < i
                  /\ last'.log[j].res = last'.log[i].fd
                  /\ last'.log[j].res # -1
                  /\ \A k \in (j + 1)..(i - 1) : last'.log[k].call \notin {"open", "close"}
       /\ (\A j \in Idx(last'.log, "open") : last'.log[j].res = -1) =>
              Idx(last'.log, "close") = {}]_vars

C7_FallbackNotClosed ==
    /\ last.op = "trace_strbuf" /\ last.val = <<"/", "x">>
    /\ \E j \in Idx(last.log, "open") : last.log[j].res = -1
    /\ \E i \in Idx(last.log, "write") : last.log[i].fd = STDERR_FILENO /\ last.log[i].res = 1
    /\ fdtab[STDERR_FILENO] = "inherited"

\* C8: once getnanotime has run, the clock is calibrated if the monotonic
\* counter works and failed if it does not.
C8_CalibratedOrFailed ==
    last.op = "getnanotime" => (IF has_highres THEN offset > 1 ELSE offset = 1)

Active1(v) == v = <<"1">>

\* C3 (as claimed): a later call with the key on changes neither the hook
\* count nor the recorded start time and command line.
C3_FirstCallWins ==
    [][(last'.op = "trace_command_performance" /\ Active1(last'.val) /\ hooks >= 1) =>
           /\ hooks' = hooks
           /\ command_start_time' = command_start_time
           /\ command_line' = command_line]_vars

\* C3 (amended): however often it is called with the key on, one exit hook
\* is registered, and the recorded start time and command line are those of
\* the latest such call.
C3_OneHookLatestCall ==
    [][(last'.op = "trace_command_performance" /\ Active1(last'.val)) =>
           /\ hooks' = 1
           /\ command_line' = sq_quote_argv(<<>>, last'.text)
           /\ \E i \in 1..Len(last'.log) :
                  /\ last'.log[i].call \in ClockCalls
                  /\ command_start_time' =
                         IF offset > 1 THEN (offset + last'.log[i].res) % Modulus
                         ELSE IF last'.log[i].call = "gettimeofday" THEN last'.log[i].res
                         ELSE -1]_vars

C3_LaterCallRecorded ==
    /\ last.op = "trace_command_performance" /\ Active1(last.val)
    /\ Idx(last.log, "atexit") = {}
    /\ hooks = 1
    /\ command_line = sq_quote_argv(<<>>, <<"git", "log">>)

\* C9: at most one exit-time report is emitted, and only after a call of
\* trace_command_performance with the key on; a call with the key off
\* registers no hook and leaves the recorded start time and command line.
C9_OneReportIfStarted ==
    [][/\ exit_reports' <= 1
       /\ exit_reports' > 0 => (hooks' = 1 /\ command_start_time' # 0)
       /\ (last'.op = "trace_command_performance" /\ KeyOff(last'.val)) =>
              UNCHANGED <<hooks, command_start_time, command_line>>]_vars

C9_ReportEmitted == exited /\ pending = 0 /\ exit_reports = 1

\* C10: a call whose key is a path that open() opens leaves the file equal
\* to its prior content followed by the call's line.
C10_AppendsLine ==
    [][(/\ last'.op \in LineOps
        /\ \E j \in Idx(last'.log, "open") : last'.log[j].res # -1
        /\ ~disk_full) =>
           file' = (IF file = Missing THEN <<>> ELSE file) \o Timestamp \o last'.text \o
                   (IF EndsInNewline(last'.text) THEN <<>> ELSE <<"\n">>)]_vars

\* "true" in any case
IsTrue(v) ==
    /\ Len(v) = 4
    /\ v[1] \in {"t", "T"} /\ v[2] \in {"r", "R"} /\ v[3] \in {"u", "U"}
    /\ v[4] \in {"e", "E"}

\* A value that is not off, not "1"/"true", not a single digit and not an
\* absolute path
Malformed(v) ==
    /\ v # NULL /\ ~KeyOff(v)
    /\ v # <<"1">>
    /\ ~IsTrue(v)
    /\ ~(Len(v) = 1 /\ v[1] \in DigitChars)
    /\ ~(Len(v) > 0 /\ v[1] = "/")

OneLineOps == LineOps \cup {"trace_argv_printf"}

\* The calls issued before the trace line is written
BeforeWrite(log, c) == {i \in Idx(log, c) : \A j \in Idx(log, "write") : i < j}

\* The call wrote one trace line, to standard error, and returned
FellBackToStderr(log) ==
    /\ Cardinality(Idx(log, "write")) = 1
    /\ \A j \in Idx(log, "write") :
           /\ log[j].fd = STDERR_FILENO
           /\ last.op \in LineOps =>
                  \/ log[j].buf = Timestamp \o last.text
                  \/ log[j].buf = Timestamp \o last.text \o <<"\n">>
    /\ Idx(log, "close") = {}
    /\ ~exited

C11_UnopenableTraced ==
    /\ last.op = "trace_strbuf" /\ is_absolute_path(last.val)
    /\ \E i \in Idx(last.log, "open") : last.log[i].res = -1
    /\ \E j \in Idx(last.log, "write") :
           last.log[j].fd = STDERR_FILENO /\ last.log[j].res = 1

\* The descriptor a value names without opening anything, -1 for none
DirectFd(v) ==
    IF Malformed(v) \/ v = <<"1">> \/ IsTrue(v) THEN STDERR_FILENO
    ELSE IF Len(v) = 1 /\ v[1] \in DigitChars THEN DigitVal[v[1]]
    ELSE -1

\* C12: whatever the earlier calls and the values they saw, a call's
\* destination is the one its own value names: an off value writes and opens
\* nothing, any other value writes the line exactly once; "1"/"true" and a
\* malformed value write to standard error, a digit to that descriptor, and
\* a path is opened in this call and the line goes to the descriptor that
\* open returned (standard error if it failed).
C12_DestinationFromValueOnly ==
    [][last'.op \in OneLineOps =>
           LET log == last'.log
               v == last'.val
               wr == Idx(log, "write")
               op == Idx(log, "open")
           IN /\ Idx(log, "getenv") # {}
              /\ KeyOff(v) => (wr = {} /\ op = {})
              /\ ~KeyOff(v) => Cardinality(wr) = 1
              /\ (~KeyOff(v) /\ ~is_absolute_path(v)) =>
                     (op = {} /\ \A j \in wr : log[j].fd = DirectFd(v))
              /\ is_absolute_path(v) =>
                     /\ Cardinality(op) = 1
                     /\ \A i \in op :
                            /\ log[i].buf = v
                            /\ \A j \in wr :
                                   log[j].fd = IF log[i].res = -1 THEN STDERR_FILENO
                                               ELSE log[i].res]_vars

\* The same with the one exception of a path whose open() returns descriptor
\* 0: that call writes nothing
C12_ExceptDescriptor0 ==
    [][last'.op \in OneLineOps =>
           LET log == last'.log
               v == last'.val
               wr == Idx(log, "write")
               op == Idx(log, "open")
           IN /\ Idx(log, "getenv") # {}
              /\ KeyOff(v) => (wr = {} /\ op = {})
              /\ ~KeyOff(v) => \/ Cardinality(wr) = 1
                               \/ wr = {} /\ \E i \in op : log[i].res = 0
              /\ (~KeyOff(v) /\ ~is_absolute_path(v)) =>
                     (op = {} /\ \A j \in wr : log[j].fd = DirectFd(v))
              /\ is_absolute_path(v) =>
                     /\ Cardinality(op) = 1
                     /\ \A i \in op :
                            /\ log[i].buf = v
                            /\ \A j \in wr :
                                   log[j].fd = IF log[i].res = -1 THEN STDERR_FILENO
                                               ELSE log[i].res]_vars

SetupLabels == <<"setup: git_dir: ", "setup: git_common_dir: ", "setup: worktree: ",
                 "setup: cwd: ", "setup: prefix: ">>

\* The lines a call emitted, in order: the second element of each written
\* buffer, which follows the timestamp
RECURSIVE EmittedLabels(_)
EmittedLabels(log) ==
    IF log = <<>> THEN <<>>
    ELSE (IF Head(log).call = "write" THEN <<Head(log).buf[2]>> ELSE <<>>)
         \o EmittedLabels(Tail(log))

\* C13: trace_repo_setup emits no line or the five lines git_dir,
\* git_common_dir, worktree, cwd, prefix in that order; with the key off it
\* does not ask for the working directory and does not end the process; with
\* the key on and no working directory it ends the process before any line.
C13_NoneOrFiveLines ==
    last.op = "trace_repo_setup" =>
        LET log == last.log IN
        /\ EmittedLabels(log) \in {<<>>, SetupLabels}
        /\ KeyOff(last.val) =>
               (Idx(log, "getcwd") = {} /\ Idx(log, "die") = {} /\ ~exited
                /\ EmittedLabels(log) = <<>>)
        /\ (~KeyOff(last.val) /\ last.text = NULL) =>
               (exited /\ Idx(log, "write") = {} /\ log[Len(log)].call = "die")
        /\ (~KeyOff(last.val) /\ last.text # NULL) =>
               (~exited /\ EmittedLabels(log) = SetupLabels)

\* The same, but for a path whose first open() returns descriptor 0: the
\* first of the five lines is then not written
C13_ExceptDescriptor0 ==
    last.op = "trace_repo_setup" =>
        LET log == last.log
            fd0 == \E i \in Idx(log, "open") : log[i].res = 0
        IN
        /\ \/ EmittedLabels(log) \in {<<>>, SetupLabels}
           \/ fd0 /\ EmittedLabels(log) = Tail(SetupLabels)
        /\ KeyOff(last.val) =>
               (Idx(log, "getcwd") = {} /\ Idx(log, "die") = {} /\ ~exited
                /\ EmittedLabels(log) = <<>>)
        /\ (~KeyOff(last.val) /\ last.text = NULL) =>
               (exited /\ Idx(log, "write") = {} /\ log[Len(log)].call = "die")
        /\ (~KeyOff(last.val) /\ last.text # NULL /\ ~fd0) =>
               (~exited /\ EmittedLabels(log) = SetupLabels)

Since(l) == l.op = "trace_performance_since"

\* The calls a trace_performance_since call issued before the key lookup
\* (the first clock reading) and after the lookup and the write (the second)
LookupAt(log) == CHOOSE i \in Idx(log, "getenv") : \A j \in Idx(log, "getenv") : i <= j

ReportEnd(log) ==
    LET s == Idx(log, "getenv") \cup Idx(log, "write") IN
    CHOOSE i \in s : \A j \in s : j <= i

\* T: the reading the call started with; off is the offset after the call
FirstReading(log, off) ==
    IF log[1].call = "gettimeofday" THEN log[1].res
    ELSE (off + log[1].res) % Modulus

\* The second reading came from the calibrated clock: one clock_gettime
SecondCalibrated(log) ==
    /\ Len(log) = ReportEnd(log) + 1
    /\ log[Len(log)].call = "clock_gettime"

SecondReading(log, off) ==
    IF SecondCalibrated(log) THEN (off + log[Len(log)].res) % Modulus
    ELSE log[ReportEnd(log) + 1].res

\* One call: the line is written exactly when the key is on and carries
\* T - start; the value returned is the second reading
SinceReports(l, off) ==
    /\ Idx(l.log, "getenv") # {}
    /\ LookupAt(l.log) \in 2..3
    /\ (Idx(l.log, "write") # {}) <=> ~KeyOff(l.val)
    /\ \A j \in Idx(l.log, "write") :
           l.log[j].buf[3] = Seconds((FirstReading(l.log, off) - l.num) % Modulus)
    /\ Len(l.log) > ReportEnd(l.log)
    /\ l.ret = SecondReading(l.log, off)

\* C14 (as claimed): trace_performance_since reports T - start, T being the
\* reading taken first, only when the key is on; it returns a second reading
\* that is never earlier than T, key on or off; and a call chained to it
\* (started at the value it returned) begins no earlier than that value.
C14_ReturnNeverEarlier ==
    [][Since(last') =>
           /\ SinceReports(last', offset')
           /\ last'.ret >= FirstReading(last'.log, offset')
           /\ (Since(last) /\ last'.num = last.ret) =>
                  FirstReading(last'.log, offset') >= last.ret]_vars

\* C14 (amended): the report and the returned second reading are as claimed;
\* the value returned is never earlier than T when the second reading comes
\* from the calibrated clock, and is otherwise the wall clock's reading at
\* that moment, whatever T was; a call chained to one that returned a
\* calibrated reading begins no earlier than that value.
C14_ReturnNeverEarlierIfCalibrated ==
    [][Since(last') =>
           /\ SinceReports(last', offset')
           /\ SecondCalibrated(last'.log) =>
                  last'.ret >= FirstReading(last'.log, offset')
           /\ ~SecondCalibrated(last'.log) =>
                  /\ last'.log[ReportEnd(last'.log) + 1].call = "gettimeofday"
                  /\ last'.ret = last'.log[ReportEnd(last'.log) + 1].res
           /\ (Since(last) /\ last'.num = last.ret /\ SecondCalibrated(last.log)) =>
                  FirstReading(last'.log, offset') >= last.ret]_vars

C14_ChainedCallReported ==
    /\ Since(last) /\ last.val = <<"1">> /\ last.num # Start
    /\ Idx(last.log, "write") # {}
    /\ SecondCalibrated(last.log)
    /\ last.ret > FirstReading(last.log, offset)
    /\ FirstReading(last.log, offset) >= last.num

\* The threads that returned offset + highres_nanos()
ReturnedCalibrated == {t \in Threads : thread[t].pc = "returned" /\ thread[t].branch = "calibrated"}

\* C15: with concurrent first calls offset is stored at most once and keeps
\* the first value stored; each stored value is wall clock minus counter as
\* one thread read them; no thread returns offset + counter with 0 or 1
\* taken for offset.
C15_OffsetWrittenOnce ==
    /\ Len(stored) <= 1
    /\ stored # <<>> => offset = stored[1].val
    /\ has_highres =>
           \A i \in 1..Len(stored) :
               stored[i].val = (stored[i].now - stored[i].highres) % Modulus
    /\ \A t \in ReturnedCalibrated : thread[t].used > 1

\* The parts of C15 taken one by one
C15_StoredFromOneThread ==
    has_highres =>
        \A i \in 1..Len(stored) :
            /\ stored[i].val = (stored[i].now - stored[i].highres) % Modulus
            /\ stored[i].now \in WallReadings /\ stored[i].highres \in 1..MaxMono

C15_NoSentinelUsed == \A t \in ReturnedCalibrated : thread[t].used > 1

C15_FirstWriterWins == stored # <<>> => offset = stored[1].val

GetNano(l) == l.op = "getnanotime"

\* The counter reading taken in a getnanotime call
CounterRead(log) == log[CHOOSE i \in Idx(log, "clock_gettime") : TRUE].res

\* The first reading of a trace_performance_since call came from the
\* calibrated clock
FirstCalibrated(log) == log[1].call = "clock_gettime" /\ LookupAt(log) = 2

\* C16: on a platform whose counter works the clock is calibrated by the
\* first getnanotime call; from then on two successive getnanotime results,
\* the calibrating one included, differ by exactly the difference of the
\* counter readings taken in the two calls, modulo the word size, and do
\* not decrease, whatever the wall clock reads.
C16_DifferenceIsCounterDifference ==
    [][(has_highres /\ GetNano(last) /\ GetNano(last')) =>
           /\ Idx(last.log, "clock_gettime") # {}
           /\ Idx(last'.log, "clock_gettime") # {}
           /\ (last'.ret - last.ret) % Modulus =
                  (CounterRead(last'.log) - CounterRead(last.log)) % Modulus
           /\ last'.ret >= last.ret]_vars

\* The same for the calls made while offset > 1, the state the code takes
\* for calibrated: once offset holds a calibration it never changes; every getnanotime
\* call that leaves the clock calibrated, the calibrating one included,
\* returns offset plus the counter reading it took, so two successive
\* results differ by exactly the difference of their counter readings,
\* modulo the word size, and do not decrease, whatever the wall clock read;
\* the elapsed time trace_performance_since reports from a calibrated clock
\* is offset plus counter minus start.
C16_DifferenceOfCounterReadings ==
    [][/\ offset > 1 => offset' = offset
       /\ (GetNano(last') /\ offset' > 1) =>
              /\ Cardinality(Idx(last'.log, "clock_gettime")) = 1
              /\ last'.ret = (offset' + CounterRead(last'.log)) % Modulus
              /\ (GetNano(last) /\ offset > 1) =>
                     /\ (last'.ret - last.ret) % Modulus =
                            (CounterRead(last'.log) - CounterRead(last.log)) % Modulus
                     /\ last'.ret >= last.ret
       /\ (Since(last') /\ FirstCalibrated(last'.log)) =>
              /\ Idx(last'.log, "gettimeofday") \subseteq
                     {i \in 1..Len(last'.log) : last'.log[i].res = 0}
              /\ \A j \in Idx(last'.log, "write") :
                     last'.log[j].buf[3] =
                         Seconds((offset + last'.log[1].res - last'.num) % Modulus)]_vars

\* A calibrated call after the counter advanced, with an offset that wrapped
\* (the wall clock read less than the counter at calibration)
C16_CalibratedCallMade ==
    /\ GetNano(last) /\ offset > MaxWall
    /\ Len(last.log) = 1 /\ last.log[1].call = "clock_gettime"
    /\ last.log[1].res > 1
    /\ last.ret = (offset + last.log[1].res) % Modulus

\* C17: for every input shorter than PATH_MAX characters quote_crnl stores
\* at most PATH_MAX bytes, the terminator included: no store is made past
\* the last byte of new_path.
C17_StoresInsideBuffer ==
    /\ quoting.top < PATH_MAX
    /\ quoting.pc # "fault"
    /\ \A i \in PATH_MAX..MemTop : quoting.mem[i] = "other"

\* The escaped form the documentation gives: backslash doubled, LF as
\* backslash n, CR as backslash r, anything else as it is
RECURSIVE Escaped(_)
Escaped(s) ==
    IF s = <<>> THEN <<>>
    ELSE (IF Head(s) = "\\" THEN <<"\\", "\\">>
          ELSE IF Head(s) = "\n" THEN <<"\\", "n">>
          ELSE IF Head(s) = "\r" THEN <<"\\", "r">>
          ELSE <<Head(s)>>) \o Escaped(Tail(s))

NoRawCRLF(s) == \A i \in 1..Len(s) : s[i] \notin {"\r", "\n"}

QuoteResultRight ==
    /\ quoting.result = Escaped(quoting.path)
    /\ NoRawCRLF(quoting.result)
    /\ \A q \in QuotePaths : q # quoting.path => quote_crnl(q) # quoting.result

\* C18: for every input string quote_crnl returns the escaped form: it has
\* no raw CR or LF, backslash is doubled, LF is backslash n, CR is backslash
\* r, every other character is copied, and no other input gives the same
\* output.
C18_EscapesEveryInput ==
    (quoting.pc \in {"returned", "fault"} /\ quoting.path # NULL) =>
        (quoting.pc = "returned" /\ QuoteResultRight)

\* The same for the calls that return
C18_EscapesWhenReturned ==
    (quoting.pc = "returned" /\ quoting.path # NULL) => QuoteResultRight

\* Each line trace_repo_setup writes is one line: its only newline is its
\* last character
C18_OneLinePerFact ==
    last.op = "trace_repo_setup" =>
        \A j \in Idx(last.log, "write") :
            LET buf == last.log[j].buf IN
            /\ buf[Len(buf)] = "\n"
            /\ \A i \in 1..(Len(buf) - 1) : buf[i] \notin {"\r", "\n"}

====
